---- MODULE Spec2Model ----
(***************************************************************************)
(* Ray Grid Puzzle (RayGridGame, src/grid-test.js): the ray tracer, the    *)
(* grid mutations and the mat-signal decoder with its single-9 timer.      *)
(***************************************************************************)
EXTENDS Integers, Sequences, FiniteSets, TLC

(* ---------- program constants ---------- *)
N == 8
signalTimeoutMs == 3000
maxSteps == 512

(* ---------- bounds of the model ---------- *)
\* feed records delivered to the child_added listener in one run
MaxSignals == 3
\* coordinate mat numbers offered by the feed are 1..MaxCoord (9 is always offered)
MaxCoord == 2
\* record timestamps are 0, TimeStep, ..., MaxTicks * TimeStep
MaxTicks == 4
\* button presses (Fire, Play/Edit mode) in one run
MaxUiOps == 1
\* candidate cells that may hold an obstacle in the traced grids
MaxCells == 4

TimeStep == signalTimeoutMs \div 2
Timestamps == {k * TimeStep : k \in 0..MaxTicks}
MatNumbers == (0..MaxCoord) \cup {9, 10}

Sides == {"left", "right", "top", "bottom"}
Dirs == {"N", "S", "E", "W"}
Cells == (0..(N - 1)) \X (0..(N - 1))

(* ---------- level definition ---------- *)
fixedObstacles ==
  { <<0, 1>>, <<1, 5>>, <<2, 3>>, <<3, 6>>, <<4, 6>>, <<5, 2>>, <<6, 4>>, <<6, 6>> }

levelDef ==
  [ entry |-> [side |-> "left", index |-> 3],
    exit  |-> [side |-> "bottom", index |-> 5] ]

\* 0 = empty, 1 = player obstacle, 2 = fixed obstacle
initialState == [cell \in Cells |-> IF cell \in fixedObstacles THEN 2 ELSE 0]

(* ---------- ray logic ---------- *)
\* mutant: the right-hand entry copies the left-hand direction
entryStartOutside_RightEast(lvl) ==
  LET side == lvl.entry.side
      index == lvl.entry.index
  IN CASE side = "left"   -> [r |-> index, c |-> -1, dir |-> "E"]
       [] side = "right"  -> [r |-> index, c |-> N, dir |-> "E"]
       [] side = "top"    -> [r |-> -1, c |-> index, dir |-> "S"]
       [] side = "bottom" -> [r |-> N, c |-> index, dir |-> "N"]

entryStartOutside(lvl) ==
  LET side == lvl.entry.side
      index == lvl.entry.index
  IN CASE side = "left"   -> [r |-> index, c |-> -1, dir |-> "E"]
       [] side = "right"  -> [r |-> index, c |-> N, dir |-> "W"]
       [] side = "top"    -> [r |-> -1, c |-> index, dir |-> "S"]
       [] side = "bottom" -> [r |-> N, c |-> index, dir |-> "N"]

dirToDelta(dir) ==
  CASE dir = "N" -> [dr |-> -1, dc |-> 0]
    [] dir = "S" -> [dr |-> 1, dc |-> 0]
    [] dir = "E" -> [dr |-> 0, dc |-> 1]
    [] dir = "W" -> [dr |-> 0, dc |-> -1]

\* variant: the turn goes the other way round
rotateCCW_Clockwise(dir) ==
  CASE dir = "N" -> "E"
    [] dir = "E" -> "S"
    [] dir = "S" -> "W"
    [] dir = "W" -> "N"

rotateCCW(dir) ==
  CASE dir = "N" -> "W"
    [] dir = "W" -> "S"
    [] dir = "S" -> "E"
    [] dir = "E" -> "N"

isInside(r, c) == r >= 0 /\ r < N /\ c >= 0 /\ c < N

\* mutant: the index is taken from the wrong coordinate of the last cell
computeExitSideAndIndex_Swapped(lastInsideR, lastInsideC, nextR, nextC) ==
  IF nextR < 0 THEN [side |-> "top", index |-> lastInsideR]
  ELSE IF nextR >= N THEN [side |-> "bottom", index |-> lastInsideR]
  ELSE IF nextC < 0 THEN [side |-> "left", index |-> lastInsideC]
  ELSE [side |-> "right", index |-> lastInsideC]

\* variant: the exit is not reported
computeExitSideAndIndex_Null(lastInsideR, lastInsideC, nextR, nextC) ==
  [side |-> "null", index |-> -1]

computeExitSideAndIndex(lastInsideR, lastInsideC, nextR, nextC) ==
  IF nextR < 0 THEN [side |-> "top", index |-> lastInsideC]
  ELSE IF nextR >= N THEN [side |-> "bottom", index |-> lastInsideC]
  ELSE IF nextC < 0 THEN [side |-> "left", index |-> lastInsideR]
  ELSE [side |-> "right", index |-> lastInsideR]

\* exitInfo: null
NoExit == [side |-> "null", index |-> -1]

\* variant: a player obstacle is recorded as an empty cell
cellType_PlayerAsEmpty(cellVal) ==
  IF cellVal = 2 THEN "FIXED" ELSE "EMPTY"

cellType(cellVal) ==
  IF cellVal = 2 THEN "FIXED" ELSE IF cellVal = 1 THEN "PLAYER" ELSE "EMPTY"

\* mutant: the loop memo forgets the direction
visitKey_NoDir(r, c, dir) == <<r, c, "">>

\* the key of the loop memo, `${r},${c},${dir}`
visitKey(r, c, dir) == <<r, c, dir>>

\* mutant: the loop condition is inverted
withinStepLimit_Inverted(steps) == steps > maxSteps

\* the loop condition, steps++ < maxSteps
withinStepLimit(steps) == steps < maxSteps

\* the while loop of traceRay; steps is the number of iterations completed
RECURSIVE traceLoop(_, _, _, _, _, _, _, _)
traceLoop(st, lvl, r, c, dir, visited, path, steps) ==
  IF ~withinStepLimit(steps)
  THEN [outcome |-> "LOSE", exitInfo |-> NoExit, path |-> path,
        reason |-> "step limit reached"]
  ELSE
    LET nr == r + dirToDelta(dir).dr
        nc == c + dirToDelta(dir).dc
    IN IF ~isInside(nr, nc)
       THEN IF isInside(r, c)
            THEN LET exitInfo == computeExitSideAndIndex(r, c, nr, nc)
                     win == (exitInfo.side = lvl.exit.side
                             /\ exitInfo.index = lvl.exit.index)
                 IN [outcome |-> IF win THEN "WIN" ELSE "LOSE",
                     exitInfo |-> exitInfo, path |-> path,
                     reason |-> IF win THEN "designated exit"
                                       ELSE "not the target exit"]
            ELSE [outcome |-> "LOSE", exitInfo |-> NoExit, path |-> path,
                  reason |-> "never entered"]
       ELSE
         LET key == visitKey(nr, nc, dir)
         IN IF key \in visited
            THEN [outcome |-> "LOSE", exitInfo |-> NoExit, path |-> path,
                  reason |-> "loop detected"]
            ELSE
              LET cellVal == st[<<nr, nc>>]
                  isObstacle == (cellVal = 1 \/ cellVal = 2)
                  entered == [r |-> nr, c |-> nc, dirBeforeCell |-> dir,
                              cellType |-> cellType(cellVal)]
                  ndir == IF isObstacle THEN rotateCCW(dir) ELSE dir
              IN traceLoop(st, lvl, nr, nc, ndir, visited \cup {key},
                           Append(path, entered), steps + 1)

traceRay(st, lvl) ==
  LET start == entryStartOutside(lvl)
  IN traceLoop(st, lvl, start.r, start.c, start.dir, {}, <<>>, 0)

\* no trace has been made yet
NoResult == [outcome |-> "NONE", exitInfo |-> NoExit, path |-> <<>>,
             reason |-> "none"]

(* ---------- cell toggling ---------- *)
\* variant: in edit mode a player obstacle becomes a fixed obstacle at once
toggleCell_EditPlayerToFixed(st, cover, r, c) ==
  LET v == st[<<r, c>>]
  IN IF cover /\ v = 2 THEN st
     ELSE IF ~cover
          THEN [st EXCEPT ![<<r, c>>] = IF v = 2 THEN 0 ELSE 2]
          ELSE [st EXCEPT ![<<r, c>>] = IF v = 1 THEN 0 ELSE 1]

\* variant: without the fixed-obstacle guard of play mode
toggleCell_NoFixedGuard(st, cover, r, c) ==
  LET v == st[<<r, c>>]
  IN IF ~cover
     THEN [st EXCEPT ![<<r, c>>] = IF v = 0 THEN 2 ELSE 0]
     ELSE [st EXCEPT ![<<r, c>>] = IF v = 1 THEN 0 ELSE 1]

\* variant: the cover is ignored, every toggle is an edit-mode toggle
toggleCell_AlwaysEdit(st, cover, r, c) ==
  LET v == st[<<r, c>>]
  IN [st EXCEPT ![<<r, c>>] = IF v = 0 THEN 2 ELSE 0]

toggleCell(st, cover, r, c) ==
  LET v == st[<<r, c>>]
  IN IF cover /\ v = 2 THEN st
     ELSE IF ~cover
          THEN [st EXCEPT ![<<r, c>>] = IF v = 0 THEN 2 ELSE 0]
          ELSE [st EXCEPT ![<<r, c>>] = IF v = 1 THEN 0 ELSE 1]

\* variant: the reset empties every cell
resetPlayerObstacles_AllCells(st) == [cell \in Cells |-> 0]

\* variant: the reset also demotes fixed obstacles to player obstacles
resetPlayerObstacles_Demote(st) ==
  [cell \in Cells |-> IF st[cell] = 1 THEN 0 ELSE IF st[cell] = 2 THEN 1 ELSE st[cell]]

resetPlayerObstacles(st) ==
  [cell \in Cells |-> IF st[cell] = 1 THEN 0 ELSE st[cell]]

\* variant: without the mode check
clearFixedObstacles_AnyMode(st, cover) ==
  [cell \in Cells |-> IF st[cell] = 2 THEN 0 ELSE st[cell]]

clearFixedObstacles(st, cover) ==
  IF cover
  THEN st
  ELSE [cell \in Cells |-> IF st[cell] = 2 THEN 0 ELSE st[cell]]

(* ---------- signal decoder: pure parts of processSignal ---------- *)
is9(item) == item.signal = 9
isCoordinate(item) == item.signal # 9

\* signalBuffer.filter(item => item.signal === 9 && now - item.timestamp <= window)
recent9(buf, now) ==
  LET test(item) == item.signal = 9 /\ (now - item.timestamp) <= signalTimeoutMs
  IN SelectSeq(buf, test)

\* the buffer clean-up at the head of the coordinate branch
cleanOld(buf, now) ==
  LET test(item) == (now - item.timestamp) <= signalTimeoutMs /\ item.signal # 9
  IN SelectSeq(buf, test)

\* mutant: both comparisons are strict
withinWindow_Strict(first, second) ==
  LET timeDiff == second.timestamp - first.timestamp
  IN timeDiff < signalTimeoutMs /\ timeDiff > 0

\* variant: the order of the two timestamps is not tested
withinWindow_AnyOrder(first, second) ==
  LET timeDiff == second.timestamp - first.timestamp
  IN timeDiff <= signalTimeoutMs

\* the two signals are within the time window, in order
withinWindow(first, second) ==
  LET timeDiff == second.timestamp - first.timestamp
  IN timeDiff <= signalTimeoutMs /\ timeDiff >= 0

\* mutant: the callback fires on more than one 9 instead of exactly one
onlyOne9_MoreThanOne(buf) == Len(SelectSeq(buf, is9)) > 1

\* the timer callback's test: still only one 9 in the buffer
onlyOne9(buf) == Len(SelectSeq(buf, is9)) = 1

\* mutant: a pair out of the window keeps the earlier-arrived signal
processCoordinate_KeepFirst(buf, signal, timestamp) ==
  LET pushed == Append(cleanOld(buf, timestamp),
                       [signal |-> signal, timestamp |-> timestamp])
      coordinateSignals == SelectSeq(pushed, isCoordinate)
      n == Len(coordinateSignals)
  IN IF n >= 2
     THEN LET first == coordinateSignals[n - 1]
              second == coordinateSignals[n]
              r == first.signal - 1
              c == second.signal - 1
          IN IF withinWindow(first, second)
             THEN IF r >= 0 /\ r < N /\ c >= 0 /\ c < N
                  THEN [buffer |-> SelectSeq(pushed, is9), toggles |-> << <<r, c>> >>]
                  ELSE [buffer |-> SelectSeq(pushed, is9), toggles |-> <<>>]
             ELSE [buffer |-> Append(SelectSeq(pushed, is9), first), toggles |-> <<>>]
     ELSE [buffer |-> pushed, toggles |-> <<>>]

\* coordinate branch: the new buffer and the toggleCell calls made (none or one)
processCoordinate(buf, signal, timestamp) ==
  LET pushed == Append(cleanOld(buf, timestamp),
                       [signal |-> signal, timestamp |-> timestamp])
      coordinateSignals == SelectSeq(pushed, isCoordinate)
      n == Len(coordinateSignals)
  IN IF n >= 2
     THEN LET first == coordinateSignals[n - 1]
              second == coordinateSignals[n]
              r == first.signal - 1
              c == second.signal - 1
          IN IF withinWindow(first, second)
             THEN IF r >= 0 /\ r < N /\ c >= 0 /\ c < N
                  THEN [buffer |-> SelectSeq(pushed, is9), toggles |-> << <<r, c>> >>]
                  ELSE [buffer |-> SelectSeq(pushed, is9), toggles |-> <<>>]
             ELSE [buffer |-> Append(SelectSeq(pushed, is9), second), toggles |-> <<>>]
     ELSE [buffer |-> pushed, toggles |-> <<>>]

(* ---------- emitted commands (history records) ---------- *)
ToggleCellCmd(r, c) == [cmd |-> "ToggleCell", r |-> r, c |-> c, timer |-> 0]
ResetObstaclesCmd == [cmd |-> "ResetObstacles", r |-> -1, c |-> -1, timer |-> 0]
FireRayCmd(id) == [cmd |-> "FireRay", r |-> -1, c |-> -1, timer |-> id]
NoCmd == [cmd |-> "none", r |-> -1, c |-> -1, timer |-> 0]
NoneEmitted == [FireRay |-> 0, ResetObstacles |-> 0, ToggleCell |-> 0]

(* ---------- state ---------- *)
VARIABLES
  state,          \* this.state, the N x N matrix of cell kinds
  level,          \* this.level: entry and exit
  coverVisible,   \* play mode
  animating,      \* a fire-and-animate sequence is in progress
  fireRayCount,
  gameWon,
  result,         \* the result of the last traceRay
  sessionStartMs,
  signalBuffer,
  signal9Timer,   \* the timer handle, 0 = null
  timers,         \* handles of the timeouts the event loop will still run
  nextTimerId,
  emitted,        \* history: how many commands of each kind the decoder has emitted
  lastCmd,        \* history: the last command emitted
  cancelled,      \* history: the handles passed to clearTimeout
  firedBy,        \* history: the handles of the timeouts that emitted FireRay
  nSignals,       \* history: feed records delivered
  nCoords,        \* history: coordinate signals handed to processSignal
  nNines,         \* history: 9s handed to processSignal
  last9At,        \* history: timestamp of the last 9 handed to processSignal
  lastEdit,       \* history: the last grid-editing call, the mode and the grid before it
  nUiOps          \* history: button presses

vars == << state, level, coverVisible, animating, fireRayCount, gameWon, result,
           sessionStartMs, signalBuffer, signal9Timer, timers, nextTimerId,
           emitted, lastCmd, cancelled, firedBy, nSignals, nCoords, nNines,
           last9At, lastEdit, nUiOps >>

histVars == << emitted, lastCmd, firedBy, nCoords, nNines, last9At, lastEdit >>
gridVars == << state, level, coverVisible >>
fireVars == << animating, fireRayCount, gameWon, result >>
timerVars == << signal9Timer, timers, nextTimerId, cancelled >>

\* the history after one more command
Emit(cmd) ==
  /\ emitted' = [emitted EXCEPT ![cmd.cmd] = @ + 1]
  /\ lastCmd' = cmd
NoEmit == UNCHANGED << emitted, lastCmd >>

\* the history after one more grid-editing call
NoEdit == [op |-> "none", cover |-> FALSE, before |-> initialState]
Edit(op) == lastEdit' = [op |-> op, cover |-> coverVisible, before |-> state]

(* ---------- constructor ---------- *)
Init ==
  /\ state = initialState
  /\ level = levelDef
  /\ coverVisible = FALSE
  /\ animating = FALSE
  /\ fireRayCount = 0
  /\ gameWon = FALSE
  /\ result = NoResult
  /\ sessionStartMs = TimeStep
  /\ signalBuffer = <<>>
  /\ signal9Timer = 0
  /\ timers = {}
  /\ nextTimerId = 1
  /\ emitted = NoneEmitted
  /\ lastCmd = NoCmd
  /\ cancelled = {}
  /\ firedBy = {}
  /\ nSignals = 0
  /\ nCoords = 0
  /\ nNines = 0
  /\ last9At = 0
  /\ lastEdit = NoEdit
  /\ nUiOps = 0


(* ---------- fireRay / animateRayPath ---------- *)
\* fireRay up to its await: refused while animating, else count, trace, animate
fireRay ==
  IF animating
  THEN UNCHANGED fireVars
  ELSE /\ fireRayCount' = fireRayCount + 1
       /\ result' = traceRay(state, level)
       /\ animating' = (Len(result'.path) # 0)
       /\ gameWon' = IF Len(result'.path) = 0 /\ result'.outcome = "WIN"
                     THEN TRUE ELSE gameWon

\* the last animation step resolves the promise; fireRay resumes after its await
AnimationEnd ==
  /\ animating
  /\ animating' = FALSE
  /\ gameWon' = IF result.outcome = "WIN" THEN TRUE ELSE gameWon
  /\ UNCHANGED << fireRayCount, result >>
  /\ UNCHANGED << gridVars, sessionStartMs, signalBuffer, timerVars,
                  histVars, nSignals, nUiOps >>

\* variant: the trace empties the obstacle cells the ray has met
BtnFire_TraceWritesGrid ==
  /\ nUiOps < MaxUiOps
  /\ nUiOps' = nUiOps + 1
  /\ fireRay
  /\ state' = [cell \in Cells |->
                 IF \E i \in DOMAIN result'.path :
                      /\ <<result'.path[i].r, result'.path[i].c>> = cell
                      /\ result'.path[i].cellType # "EMPTY"
                 THEN 0 ELSE state[cell]]
  /\ UNCHANGED << level, coverVisible, sessionStartMs, signalBuffer, timerVars,
                  histVars, nSignals >>

\* click on btnFire
BtnFire ==
  /\ nUiOps < MaxUiOps
  /\ nUiOps' = nUiOps + 1
  /\ fireRay
  /\ UNCHANGED << gridVars, sessionStartMs, signalBuffer, timerVars,
                  histVars, nSignals >>

\* click on btnToggleCover: startTimer / resetTimer both clear the score state
toggleCover ==
  /\ nUiOps < MaxUiOps
  /\ nUiOps' = nUiOps + 1
  /\ coverVisible' = ~coverVisible
  /\ gameWon' = FALSE
  /\ fireRayCount' = 0
  /\ UNCHANGED << state, level, animating, result, sessionStartMs, signalBuffer,
                  timerVars, histVars, nSignals >>

(* ---------- grid edits from the page ---------- *)
\* the cells the model clicks: the ones the offered coordinate signals address
ClickCells == (0..(MaxCoord - 1)) \X (0..(MaxCoord - 1))

\* click on a grid cell: ignored while animating, else toggleCell(r, c)
Click(r, c) ==
  /\ nUiOps < MaxUiOps
  /\ nUiOps' = nUiOps + 1
  /\ IF animating
     THEN UNCHANGED << state, lastEdit >>
     ELSE /\ state' = toggleCell(state, coverVisible, r, c)
          /\ Edit("toggleCell")
  /\ UNCHANGED << level, coverVisible, fireVars, sessionStartMs, signalBuffer,
                  timerVars, emitted, lastCmd, firedBy, nCoords, nNines, last9At,
                  nSignals >>

\* click on btnReset: resetPlayerObstacles()
BtnReset ==
  /\ nUiOps < MaxUiOps
  /\ nUiOps' = nUiOps + 1
  /\ state' = resetPlayerObstacles(state)
  /\ Edit("reset")
  /\ UNCHANGED << level, coverVisible, fireVars, sessionStartMs, signalBuffer,
                  timerVars, emitted, lastCmd, firedBy, nCoords, nNines, last9At,
                  nSignals >>

\* click on btnClear: clearAllPlayerObstacles() = reset, then clear the ray visuals
BtnClear ==
  /\ nUiOps < MaxUiOps
  /\ nUiOps' = nUiOps + 1
  /\ state' = resetPlayerObstacles(state)
  /\ Edit("clearAll")
  /\ UNCHANGED << level, coverVisible, fireVars, sessionStartMs, signalBuffer,
                  timerVars, emitted, lastCmd, firedBy, nCoords, nNines, last9At,
                  nSignals >>

\* click on btnClearFixed: clearFixedObstacles()
BtnClearFixed ==
  /\ nUiOps < MaxUiOps
  /\ nUiOps' = nUiOps + 1
  /\ state' = clearFixedObstacles(state, coverVisible)
  /\ Edit("clearFixed")
  /\ UNCHANGED << level, coverVisible, fireVars, sessionStartMs, signalBuffer,
                  timerVars, emitted, lastCmd, firedBy, nCoords, nNines, last9At,
                  nSignals >>

(* ---------- processSignal ---------- *)
\* mutant: the timeout stays scheduled
clearTimeout_Noop(pending, handle) == pending

\* clearTimeout(handle): the event loop forgets the timeout
clearTimeout(pending, handle) == pending \ {handle}

\* signal === 9
processSignal9(timestamp) ==
  LET armed == signal9Timer # 0
      live == IF armed THEN clearTimeout(timers, signal9Timer) ELSE timers
  IN /\ cancelled' = IF armed THEN cancelled \cup {signal9Timer} ELSE cancelled
     /\ IF Len(recent9(signalBuffer, timestamp)) > 0
        THEN /\ signalBuffer' = SelectSeq(signalBuffer, isCoordinate)
             /\ state' = resetPlayerObstacles(state)
             /\ Emit(ResetObstaclesCmd)
             /\ Edit("double9")
             /\ signal9Timer' = 0
             /\ timers' = live
             /\ UNCHANGED nextTimerId
        ELSE /\ signalBuffer' = Append(signalBuffer,
                                       [signal |-> 9, timestamp |-> timestamp])
             /\ signal9Timer' = nextTimerId
             /\ timers' = live \cup {nextTimerId}
             /\ nextTimerId' = nextTimerId + 1
             /\ UNCHANGED << state, lastEdit >>
             /\ NoEmit
     /\ nNines' = nNines + 1
     /\ last9At' = timestamp
     /\ UNCHANGED << level, coverVisible, fireVars, sessionStartMs, firedBy, nCoords >>

\* signal in 1..8
processSignalCoordinate(signal, timestamp) ==
  LET out == processCoordinate(signalBuffer, signal, timestamp)
  IN /\ signalBuffer' = out.buffer
     /\ IF Len(out.toggles) > 0
        THEN /\ state' = toggleCell(state, coverVisible, out.toggles[1][1], out.toggles[1][2])
             /\ Emit(ToggleCellCmd(out.toggles[1][1], out.toggles[1][2]))
             /\ Edit("toggleCell")
        ELSE /\ UNCHANGED << state, lastEdit >>
             /\ NoEmit
     /\ nCoords' = nCoords + 1
     /\ UNCHANGED << level, coverVisible, fireVars, sessionStartMs, timerVars,
                     firedBy, nNines, last9At >>

processSignal(signal, timestamp) ==
  IF signal = 9
  THEN processSignal9(timestamp)
  ELSE processSignalCoordinate(signal, timestamp)

\* variant: records older than the session are let through
accepted_Backlog(matNumber, timestamp) ==
  /\ ~animating
  /\ ~(matNumber < 1 \/ matNumber > 9)

\* the record passes the filters of the child_added listener
accepted(matNumber, timestamp) ==
  /\ ~animating
  /\ ~(matNumber < 1 \/ matNumber > 9)
  /\ ~(timestamp < sessionStartMs)

\* the child_added listener of attachFirebaseListener
ChildAdded(matNumber, timestamp) ==
  /\ nSignals < MaxSignals
  /\ nSignals' = nSignals + 1
  /\ nUiOps' = nUiOps
  /\ IF accepted(matNumber, timestamp)
     THEN processSignal(matNumber, timestamp)
     ELSE UNCHANGED << gridVars, fireVars, sessionStartMs, signalBuffer,
                       timerVars, histVars >>

\* the setTimeout callback armed by a single 9
Signal9TimerFires(id) ==
  /\ id \in timers
  /\ timers' = timers \ {id}
  /\ IF onlyOne9(signalBuffer)
     THEN /\ signalBuffer' = SelectSeq(signalBuffer, isCoordinate)
          /\ fireRay
          /\ Emit(FireRayCmd(id))
          /\ firedBy' = firedBy \cup {id}
     ELSE /\ UNCHANGED << signalBuffer, fireVars, firedBy >>
          /\ NoEmit
  /\ signal9Timer' = 0
  /\ UNCHANGED << gridVars, sessionStartMs, nextTimerId, cancelled,
                  nSignals, nCoords, nNines, last9At, lastEdit, nUiOps >>

Next ==
  \/ \E matNumber \in MatNumbers, timestamp \in Timestamps :
        ChildAdded(matNumber, timestamp)
  \/ \E id \in timers : Signal9TimerFires(id)
  \/ BtnFire
  \/ AnimationEnd
  \/ toggleCover

Spec == Init /\ [][Next]_vars

(* ---------- the game picked up in either mode, player obstacles placed ---------- *)
\* the cell that holds a player obstacle when the game is picked up
PlayerCells == { <<1, 1>> }
PlayGrids ==
  { [cell \in Cells |-> IF cell \in PlayerCells THEN 1 ELSE initialState[cell]] }

\* the state after toggleCover and toggleCell calls since construction
InitPlay ==
  /\ state \in PlayGrids
  /\ level = levelDef
  /\ coverVisible \in BOOLEAN
  /\ animating = FALSE
  /\ fireRayCount = 0
  /\ gameWon = FALSE
  /\ result = NoResult
  /\ sessionStartMs = TimeStep
  /\ signalBuffer = <<>>
  /\ signal9Timer = 0
  /\ timers = {}
  /\ nextTimerId = 1
  /\ emitted = NoneEmitted
  /\ lastCmd = NoCmd
  /\ cancelled = {}
  /\ firedBy = {}
  /\ nSignals = 0
  /\ nCoords = 0
  /\ nNines = 0
  /\ last9At = 0
  /\ lastEdit = NoEdit
  /\ nUiOps = 0

\* the feed of this game: records of one instant, the start of the session
PlayTimestamps == {sessionStartMs}

NextPlay ==
  \/ \E matNumber \in MatNumbers, timestamp \in PlayTimestamps :
        ChildAdded(matNumber, timestamp)
  \/ \E id \in timers : Signal9TimerFires(id)
  \/ BtnFire
  \/ AnimationEnd
  \/ toggleCover
  \/ \E cell \in ClickCells : Click(cell[1], cell[2])
  \/ BtnReset
  \/ BtnClear
  \/ BtnClearFixed

SpecPlay == InitPlay /\ [][NextPlay]_vars

(* ---------- traceRay over a family of grids and levels ---------- *)
\* the cells that may hold an obstacle: a 2x2 block, then cells around it
CandidateCells ==
  << <<3, 3>>, <<3, 4>>, <<4, 3>>, <<4, 4>>, <<3, 0>>, <<0, 3>>, <<7, 4>>, <<4, 7>> >>

gridOf(kinds) ==
  [cell \in Cells |->
     IF \E i \in DOMAIN kinds : CandidateCells[i] = cell
     THEN kinds[CHOOSE i \in DOMAIN kinds : CandidateCells[i] = cell]
     ELSE 0]

TracedGrids == { gridOf(kinds) : kinds \in [1..MaxCells -> 0..2] }

BoundaryRefs == [side : Sides, index : 0..(N - 1)]
Levels == [entry : BoundaryRefs, exit : BoundaryRefs]

InitRay ==
  /\ state \in TracedGrids
  /\ level \in Levels
  /\ coverVisible = FALSE
  /\ animating = FALSE
  /\ fireRayCount = 0
  /\ gameWon = FALSE
  /\ result = NoResult
  /\ sessionStartMs = TimeStep
  /\ signalBuffer = <<>>
  /\ signal9Timer = 0
  /\ timers = {}
  /\ nextTimerId = 1
  /\ emitted = NoneEmitted
  /\ lastCmd = NoCmd
  /\ cancelled = {}
  /\ firedBy = {}
  /\ nSignals = 0
  /\ nCoords = 0
  /\ nNines = 0
  /\ last9At = 0
  /\ lastEdit = NoEdit
  /\ nUiOps = 0

\* one call of traceRay on the grid and level as they are
TraceRay ==
  /\ result = NoResult
  /\ result' = traceRay(state, level)
  /\ UNCHANGED << gridVars, animating, fireRayCount, gameWon, sessionStartMs,
                  signalBuffer, timerVars, histVars, nSignals, nUiOps >>

NextRay == TraceRay

SpecRay == InitRay /\ [][NextRay]_vars

(* ======================= properties ======================= *)
nines(buf) == SelectSeq(buf, is9)
coords(buf) == SelectSeq(buf, isCoordinate)
CoordNumbers == MatNumbers \cap (1..8)

\* C1: when a 9 has armed the timer and the timer is still pending, a second 9
\* whose timestamp is at most the window after the first cancels the timer,
\* leaves no 9 in the buffer and emits exactly one ResetObstacles; nothing is
\* left that could emit FireRay for either 9.
C1_DoublePressResets ==
  [][ \A ts \in Timestamps :
        ( /\ signal9Timer # 0
          /\ signal9Timer \in timers
          /\ accepted(9, ts)
          /\ ts - last9At <= signalTimeoutMs
          /\ ChildAdded(9, ts) )
        => ( /\ signal9Timer \notin timers'
             /\ signal9Timer' = 0
             /\ timers' = {}
             /\ nines(signalBuffer') = <<>>
             /\ emitted' = [emitted EXCEPT !.ResetObstacles = @ + 1]
             /\ lastCmd' = ResetObstaclesCmd ) ]_vars

\* C1, the part the code keeps: if the arming 9 is still in the buffer when
\* the second 9 arrives within the window, the double press resets.
C1_DirectDoublePress ==
  [][ \A ts \in Timestamps :
        ( /\ signal9Timer # 0
          /\ signal9Timer \in timers
          /\ accepted(9, ts)
          /\ \E i \in DOMAIN signalBuffer :
                is9(signalBuffer[i]) /\ signalBuffer[i].timestamp = last9At
          /\ ts - last9At <= signalTimeoutMs
          /\ ChildAdded(9, ts) )
        => ( /\ timers' = {}
             /\ signal9Timer' = 0
             /\ nines(signalBuffer') = <<>>
             /\ emitted' = [emitted EXCEPT !.ResetObstacles = @ + 1] ) ]_vars

\* C2: when the timer armed by a single 9 fires and that 9 is all the buffer
\* holds, exactly one FireRay and no other command is emitted, and afterwards
\* the buffer holds no 9 and no timer is pending.
C2_SinglePressFires ==
  [][ \A id \in timers :
        ( /\ signal9Timer = id
          /\ Len(signalBuffer) = 1
          /\ is9(signalBuffer[1])
          /\ signalBuffer[1].timestamp = last9At
          /\ Signal9TimerFires(id) )
        => ( /\ emitted' = [emitted EXCEPT !.FireRay = @ + 1]
             /\ lastCmd' = FireRayCmd(id)
             /\ nines(signalBuffer') = <<>>
             /\ signal9Timer' = 0
             /\ timers' = {} ) ]_vars

\* one record was delivered, a 9, and its timer has fired
C2_Witness ==
  /\ nSignals = 1
  /\ nNines = 1
  /\ emitted = [FireRay |-> 1, ResetObstacles |-> 0, ToggleCell |-> 0]
  /\ signalBuffer = <<>>
  /\ signal9Timer = 0
  /\ timers = {}

\* C3: every 9 contributes to at most one command (FireRay counts one 9,
\* ResetObstacles two), and no timeout that was cancelled has emitted FireRay.
C3_NoDoubleEmission ==
  /\ emitted.FireRay + 2 * emitted.ResetObstacles <= nNines
  /\ firedBy \cap cancelled = {}

\* a double press cancelled a timer and a later single press fired
C3_Witness ==
  /\ cancelled # {}
  /\ firedBy # {}
  /\ emitted.ResetObstacles = 1
  /\ emitted.FireRay = 1
  /\ nNines = 3

\* C4: with one coordinate entry a buffered, a coordinate signal b with
\* 0 <= tb - ta <= window emits exactly one ToggleCell(a - 1, b - 1) and leaves
\* no coordinate entry in the buffer.
C4_CoordinatePairing ==
  [][ \A b \in CoordNumbers, tb \in Timestamps :
        ( /\ accepted(b, tb)
          /\ Len(coords(signalBuffer)) = 1
          /\ tb - coords(signalBuffer)[1].timestamp >= 0
          /\ tb - coords(signalBuffer)[1].timestamp <= signalTimeoutMs
          /\ ChildAdded(b, tb) )
        => ( /\ emitted' = [emitted EXCEPT !.ToggleCell = @ + 1]
             /\ lastCmd' = ToggleCellCmd(coords(signalBuffer)[1].signal - 1, b - 1)
             /\ coords(signalBuffer') = <<>> ) ]_vars

\* two records were delivered, 1 then 2, and paired as row 0, column 1
C4_Witness ==
  /\ nSignals = 2
  /\ nCoords = 2
  /\ emitted = [FireRay |-> 0, ResetObstacles |-> 0, ToggleCell |-> 1]
  /\ lastCmd = ToggleCellCmd(0, 1)
  /\ coords(signalBuffer) = <<>>

\* C5: with one coordinate entry a buffered, a coordinate signal b whose
\* timestamp differs from a's by more than the window emits nothing and leaves
\* b as the only coordinate entry, and any coordinate signal c within the
\* window of b then pairs with b as the row.
C5_StalePair ==
  [][ \A b \in CoordNumbers, tb \in Timestamps :
        ( /\ accepted(b, tb)
          /\ Len(coords(signalBuffer)) = 1
          /\ \/ tb - coords(signalBuffer)[1].timestamp > signalTimeoutMs
             \/ coords(signalBuffer)[1].timestamp - tb > signalTimeoutMs
          /\ ChildAdded(b, tb) )
        => ( /\ emitted' = emitted
             /\ lastCmd' = lastCmd
             /\ coords(signalBuffer') = << [signal |-> b, timestamp |-> tb] >>
             /\ \A c \in 1..8, tc \in Timestamps :
                  (tc - tb >= 0 /\ tc - tb <= signalTimeoutMs)
                  => processCoordinate(signalBuffer', c, tc).toggles
                       = << <<b - 1, c - 1>> >> ) ]_vars

\* three coordinate records, one command: the first was dropped, 2 then 1 paired
C5_Witness ==
  /\ nSignals = 3
  /\ nCoords = 3
  /\ emitted = [FireRay |-> 0, ResetObstacles |-> 0, ToggleCell |-> 1]
  /\ lastCmd = ToggleCellCmd(1, 0)
  /\ signalBuffer = <<>>

\* C6: processing a coordinate signal leaves the 9 entries of the buffer and
\* the pending timer as they were.
C6_TrackIndependence ==
  [][ \A sig \in CoordNumbers, ts \in Timestamps :
        ( accepted(sig, ts) /\ ChildAdded(sig, ts) )
        => ( /\ nines(signalBuffer') = nines(signalBuffer)
             /\ signal9Timer' = signal9Timer
             /\ timers' = timers ) ]_vars

(* ---------- ray properties (SpecRay) ---------- *)
Traced == result # NoResult
NoObstacles == \A cell \in Cells : state[cell] = 0
Opposite(side) ==
  CASE side = "left" -> "right"
    [] side = "right" -> "left"
    [] side = "top" -> "bottom"
    [] side = "bottom" -> "top"

\* the direction in which the ray leaves a cell of the path
outDir(p) == IF p.cellType = "EMPTY" THEN p.dirBeforeCell ELSE rotateCCW(p.dirBeforeCell)
LastCell == result.path[Len(result.path)]
\* the cells of the path that hold an obstacle of the kind
Hits(kind) == { i \in DOMAIN result.path : result.path[i].cellType = kind }

\* C7: on a grid with no obstacle the ray crosses the grid in a straight line
\* and leaves at the opposite side with the entry's index; the outcome is WIN
\* iff that side and index are the configured exit.
C7_StraightThrough ==
  (Traced /\ NoObstacles)
  => /\ result.exitInfo = [side |-> Opposite(level.entry.side),
                           index |-> level.entry.index]
     /\ Len(result.path) = N
     /\ \A i \in DOMAIN result.path : result.path[i].dirBeforeCell = result.path[1].dirBeforeCell
     /\ (result.outcome = "WIN") <=> (result.exitInfo = level.exit)
     /\ result.outcome \in {"WIN", "LOSE"}

\* the empty grid, entered at left 3 with the exit at right 3
C7_Witness ==
  /\ Traced
  /\ NoObstacles
  /\ level.entry = [side |-> "left", index |-> 3]
  /\ result.exitInfo = [side |-> "right", index |-> 3]
  /\ result.outcome = "WIN"

\* C8: when the ray steps from its last in-grid cell out of the grid, exitInfo
\* names the boundary crossed and the column (top/bottom) or row (left/right)
\* of that last cell, and the outcome is WIN iff exitInfo is the configured
\* exit, LOSE otherwise.
C8_ExitClassification ==
  ( /\ Traced
    /\ Len(result.path) > 0
    /\ ~isInside(LastCell.r + dirToDelta(outDir(LastCell)).dr,
                 LastCell.c + dirToDelta(outDir(LastCell)).dc) )
  => /\ outDir(LastCell) = "N" =>
          (LastCell.r = 0 /\ result.exitInfo = [side |-> "top", index |-> LastCell.c])
     /\ outDir(LastCell) = "S" =>
          (LastCell.r = N - 1 /\ result.exitInfo = [side |-> "bottom", index |-> LastCell.c])
     /\ outDir(LastCell) = "W" =>
          (LastCell.c = 0 /\ result.exitInfo = [side |-> "left", index |-> LastCell.r])
     /\ outDir(LastCell) = "E" =>
          (LastCell.c = N - 1 /\ result.exitInfo = [side |-> "right", index |-> LastCell.r])
     /\ result.outcome = IF result.exitInfo = level.exit THEN "WIN" ELSE "LOSE"

\* entered at left 4, turned twice by obstacles, left at left 3, the exit
C8_Witness ==
  /\ Traced
  /\ level.entry = [side |-> "left", index |-> 4]
  /\ result.exitInfo = [side |-> "left", index |-> 3]
  /\ result.outcome = "WIN"
  /\ Hits("FIXED") # {}

\* FixedObstacle cells at the four corners of a rectangle, its sides empty:
\* a ray circulating among them would turn at each corner for ever
HasFixedCycle ==
  \E r1 \in 0..(N - 2), c1 \in 0..(N - 2) :
    /\ state[<<r1, c1>>] = 2
    /\ \E r2 \in (r1 + 1)..(N - 1), c2 \in (c1 + 1)..(N - 1) :
         /\ state[<<r1, c2>>] = 2
         /\ state[<<r2, c1>>] = 2
         /\ state[<<r2, c2>>] = 2
         /\ \A r \in (r1 + 1)..(r2 - 1) : state[<<r, c1>>] = 0 /\ state[<<r, c2>>] = 0
         /\ \A c \in (c1 + 1)..(c2 - 1) : state[<<r1, c>>] = 0 /\ state[<<r2, c>>] = 0

\* C9 as stated: on a grid whose FixedObstacle cells form a deflection cycle
\* traceRay returns LOSE with reason 'loop detected' before the step ceiling.
C9_LoopDetected ==
  (Traced /\ HasFixedCycle)
  => /\ result.outcome = "LOSE"
     /\ result.reason = "loop detected"
     /\ Len(result.path) < maxSteps

\* C9 as amended: on a grid whose FixedObstacle cells form a deflection cycle
\* the ray that enters from the boundary never repeats a (row, col, direction)
\* triple, so traceRay does not report 'loop detected': it returns the ray's
\* exit well before the step ceiling.
C9_NoLoopOnCycleGrid ==
  (Traced /\ HasFixedCycle)
  => /\ result.reason # "loop detected"
     /\ \A i, j \in DOMAIN result.path :
          ( /\ result.path[i].r = result.path[j].r
            /\ result.path[i].c = result.path[j].c
            /\ result.path[i].dirBeforeCell = result.path[j].dirBeforeCell ) => i = j
     /\ result.exitInfo # NoExit
     /\ Len(result.path) < maxSteps

\* a ray turned by two corners of the cycle
C9_Witness ==
  /\ Traced
  /\ HasFixedCycle
  /\ Cardinality(Hits("FIXED")) >= 2

\* C10: for every grid and every valid entry the trace ends with the ray
\* crossing a boundary: exitInfo is present and the reason is neither
\* 'loop detected' nor 'step limit reached'.
C10_RayExits ==
  Traced
  => /\ result.exitInfo # NoExit
     /\ result.exitInfo.side \in Sides
     /\ result.exitInfo.index \in 0..(N - 1)
     /\ result.reason \in {"designated exit", "not the target exit"}

\* a ray turned by a player obstacle and by a fixed obstacle that left the grid
C10_Witness ==
  /\ Traced
  /\ Hits("PLAYER") # {}
  /\ Hits("FIXED") # {}
  /\ result.exitInfo # NoExit

(* ---------- C11: the turn at an obstacle ---------- *)
\* the direction 90 degrees to the right of the travel direction
turnRight(dir) ==
  CASE dir = "N" -> "E"
    [] dir = "E" -> "S"
    [] dir = "S" -> "W"
    [] dir = "W" -> "N"

\* C11: a ray that enters an obstacle cell turns 90 degrees to the right of its
\* travel direction (clockwise, N -> E -> S -> W -> N): it enters the next cell
\* of its path heading that way.
C11_TurnsRight ==
  Traced
  => \A i \in DOMAIN result.path :
       (i < Len(result.path) /\ result.path[i].cellType # "EMPTY")
       => result.path[i + 1].dirBeforeCell = turnRight(result.path[i].dirBeforeCell)

(* ---------- C12, C13: toggleCell ---------- *)
\* a step in which toggleCell(r, c) ran on the cell: a click outside an
\* animation, or a ToggleCell command of the decoder
Toggled(cell) ==
  /\ lastEdit'.op = "toggleCell" /\ lastEdit'.before = state
  /\ \/ ~animating /\ Click(cell[1], cell[2])
     \/ /\ emitted'.ToggleCell = emitted.ToggleCell + 1
        /\ lastCmd' = ToggleCellCmd(cell[1], cell[2])

\* the kind of the toggled cell after an edit-mode toggle, a play-mode toggle
editToggled(kind) == CASE kind = 2 -> 0 [] kind = 0 -> 2 [] kind = 1 -> 0
playToggled(kind) == CASE kind = 2 -> 2 [] kind = 0 -> 1 [] kind = 1 -> 0

\* C12: outside play mode toggleCell(r, c) makes a FixedObstacle cell Empty,
\* an Empty cell FixedObstacle and a PlayerObstacle cell Empty, and changes no
\* other cell; a further toggle of a cell that was Empty makes it Empty again,
\* and a cell that was PlayerObstacle becomes FixedObstacle only by the
\* second toggle.
C12_EditToggle ==
  [][ \A cell \in ClickCells :
        (~coverVisible /\ Toggled(cell))
        => LET again == toggleCell(state', FALSE, cell[1], cell[2])
           IN /\ state' = [state EXCEPT ![cell] = editToggled(@)]
              /\ state[cell] = 0 => (state'[cell] = 2 /\ again[cell] = 0)
              /\ state[cell] = 1 => (state'[cell] = 0 /\ again[cell] = 2)
              /\ \A other \in Cells \ {cell} : again[other] = state[other] ]_vars

\* an edit-mode click has just emptied a cell that held a player obstacle
C12_Witness ==
  /\ lastEdit.op = "toggleCell"
  /\ ~lastEdit.cover
  /\ nUiOps = 1
  /\ emitted.ToggleCell = 0
  /\ \E cell \in ClickCells :
       /\ lastEdit.before[cell] = 1
       /\ state = [lastEdit.before EXCEPT ![cell] = 0]

\* C13: in play mode toggleCell(r, c) makes an Empty cell PlayerObstacle and a
\* PlayerObstacle cell Empty, does nothing on a FixedObstacle cell and changes
\* no other cell; toggling the same cell twice restores the grid exactly.
C13_PlayToggle ==
  [][ \A cell \in ClickCells :
        (coverVisible /\ Toggled(cell))
        => /\ state' = [state EXCEPT ![cell] = playToggled(@)]
           /\ state[cell] = 2 => state' = state
           /\ toggleCell(state', TRUE, cell[1], cell[2]) = state ]_vars

\* a play-mode toggle has just put a player obstacle on an empty cell, on a
\* grid that holds a fixed obstacle among the cells that can be toggled
C13_Witness ==
  /\ lastEdit.op = "toggleCell"
  /\ lastEdit.cover
  /\ \E cell \in ClickCells :
       /\ lastEdit.before[cell] = 0
       /\ state = [lastEdit.before EXCEPT ![cell] = 1]
  /\ \E cell \in ClickCells : state[cell] = 2

(* ---------- C14, C15: resetPlayerObstacles ---------- *)
\* a step in which resetPlayerObstacles() ran: btnReset, btnClear, or the
\* ResetObstacles command of a double 9
ResetRan ==
  /\ lastEdit'.op \in {"reset", "clearAll", "double9"} /\ lastEdit'.before = state
  /\ \/ BtnReset
     \/ BtnClear
     \/ emitted'.ResetObstacles = emitted.ResetObstacles + 1

\* C14: after resetPlayerObstacles (from a button or from a double 9) no cell
\* is PlayerObstacle, and every cell that was FixedObstacle or Empty is as it
\* was, in play mode and in edit mode.
C14_ResetPlayerObstacles ==
  [][ ResetRan
      => \A cell \in Cells :
           /\ state'[cell] # 1
           /\ state[cell] # 1 => state'[cell] = state[cell] ]_vars

\* a double 9 has just removed a player obstacle from a grid with fixed obstacles
C14_Witness ==
  /\ lastEdit.op = "double9"
  /\ emitted.ResetObstacles = 1
  /\ lastCmd = ResetObstaclesCmd
  /\ \E cell \in Cells : lastEdit.before[cell] = 1
  /\ \E cell \in Cells : lastEdit.before[cell] = 2
  /\ \A cell \in Cells : state[cell] # 1

\* C15: resetPlayerObstacles is idempotent: applied to the grid it has just
\* produced it changes nothing, so two resets in a row leave the grid of one.
C15_ResetIdempotent ==
  [][ ResetRan
      => /\ state' = resetPlayerObstacles(state)
         /\ resetPlayerObstacles(state') = state' ]_vars

\* btnReset has just removed a player obstacle, and the grid is a fixed point
\* of the reset
C15_Witness ==
  /\ lastEdit.op = "reset"
  /\ \E cell \in Cells : lastEdit.before[cell] = 1
  /\ state # lastEdit.before
  /\ state = resetPlayerObstacles(lastEdit.before)

(* ---------- C16: clearFixedObstacles ---------- *)
\* C16: clearFixedObstacles is refused in play mode and leaves the grid as it
\* is; in edit mode it makes every FixedObstacle cell Empty and leaves the
\* PlayerObstacle and Empty cells as they are.
C16_ClearFixedObstacles ==
  [][ (lastEdit'.op = "clearFixed" /\ lastEdit'.before = state /\ BtnClearFixed)
      => IF coverVisible
         THEN state' = state
         ELSE \A cell \in Cells :
                state'[cell] = IF state[cell] = 2 THEN 0 ELSE state[cell] ]_vars

\* in edit mode the fixed obstacles have just been cleared from a grid that
\* also held a player obstacle, which is still there
C16_Witness ==
  /\ lastEdit.op = "clearFixed"
  /\ ~lastEdit.cover
  /\ \E cell \in Cells : lastEdit.before[cell] = 2
  /\ \E cell \in Cells : lastEdit.before[cell] = 1 /\ state[cell] = 1
  /\ \A cell \in Cells : state[cell] # 2

(* ---------- C17: the animation lock ---------- *)
\* a fire request or a grid edit from the page, the feed or the 9-timer
GuardedRequest ==
  \/ BtnFire
  \/ \E cell \in ClickCells : Click(cell[1], cell[2])
  \/ \E matNumber \in MatNumbers, timestamp \in Timestamps :
        ChildAdded(matNumber, timestamp)
  \/ \E id \in timers : Signal9TimerFires(id)
ButtonRequest == BtnReset \/ BtnClear \/ BtnClearFixed

\* C17: while animating, every fire request and every grid edit (a click on a
\* cell, the reset and clear buttons, clearFixedObstacles, a command decoded
\* from the feed or emitted by the 9-timer) is rejected: the grid and the fire
\* count stay as they are and the one animation goes on.
C17_AnimationLock ==
  [][ (animating /\ (GuardedRequest \/ ButtonRequest))
      => /\ state' = state
         /\ fireRayCount' = fireRayCount
         /\ animating' /\ result' = result ]_vars

\* the part of C17 the guards at the cell listener, fireRay and child_added
\* give: requests other than the three buttons are rejected while animating
C17_GuardedRequestsRejected ==
  [][ (animating /\ GuardedRequest)
      => /\ state' = state
         /\ fireRayCount' = fireRayCount
         /\ animating' /\ result' = result ]_vars

Arming9 == [signal |-> 9, timestamp |-> last9At]
InBuffer(item, buf) == \E i \in DOMAIN buf : buf[i] = item

\* C19: when a timer armed by a 9 fires without having been cancelled by a
\* later 9, its callback emits FireRay and removes that 9 from the buffer,
\* whatever coordinate signals or older 9s were processed before.
C19_TimerEmitsFireRay ==
  [][ \A id \in timers :
        (id \notin cancelled /\ Signal9TimerFires(id))
        => /\ emitted'.FireRay = emitted.FireRay + 1
           /\ lastCmd' = FireRayCmd(id)
           /\ ~InBuffer(Arming9, signalBuffer') ]_vars

\* the same with no coordinate signal processed in the run
C19_TimerEmitsFireRay_NoCoordinates ==
  [][ \A id \in timers :
        (nCoords = 0 /\ id \notin cancelled /\ Signal9TimerFires(id))
        => /\ emitted'.FireRay = emitted.FireRay + 1
           /\ lastCmd' = FireRayCmd(id)
           /\ ~InBuffer(Arming9, signalBuffer') ]_vars

\* C20: at most one timer is outstanding, and while one is outstanding the
\* buffer holds exactly one 9, the one that armed it.
C20_TimerInvariant ==
  /\ Cardinality(timers) <= 1
  /\ timers # {} => nines(signalBuffer) = << Arming9 >>

\* the part of C20 that clearTimeout at the head of the 9-branch gives: at most
\* one timer is outstanding, and it is the one signal9Timer refers to
C20_AtMostOneTimer ==
  /\ Cardinality(timers) <= 1
  /\ timers \subseteq {signal9Timer}
  /\ signal9Timer # 0 => timers = {signal9Timer}

(* ---------- C21: the size of the signal buffer ---------- *)
\* C21: after every processSignal call and every timer callback the buffer
\* holds at most one 9 and at most one coordinate signal, also when 9s more
\* than the window apart arrive before the pending timer fires.
C21_BufferBounded ==
  /\ Len(nines(signalBuffer)) <= 1
  /\ Len(coords(signalBuffer)) <= 1

\* the part of C21 the coordinate branch gives: it leaves at most one
\* coordinate signal behind, and the 9-branch adds none
C21_OneCoordinate == Len(coords(signalBuffer)) <= 1

(* ---------- C22: fixed obstacles during play ---------- *)
FixedCells(st) == { cell \in Cells : st[cell] = 2 }

\* C22: no step taken in play mode (a toggle, a reset, a clear, a refused
\* clearFixedObstacles, a command of the decoder) changes the set of
\* FixedObstacle cells; the set changes only by toggleCell or
\* clearFixedObstacles run in edit mode.
C22_FixedImmutableInPlay ==
  [][ /\ coverVisible => FixedCells(state') = FixedCells(state)
      /\ FixedCells(state') # FixedCells(state)
         => /\ ~coverVisible
            /\ lastEdit'.op \in {"toggleCell", "clearFixed"}
            /\ lastEdit'.before = state ]_vars

\* a play-mode click on a fixed obstacle has just left the grid as it was
C22_Witness ==
  /\ lastEdit.op = "toggleCell"
  /\ lastEdit.cover
  /\ coverVisible
  /\ nUiOps = 1
  /\ emitted.ToggleCell = 0
  /\ state = lastEdit.before
  /\ FixedCells(state) # {}

(* ---------- C23: coordinate signals out of order ---------- *)
\* C23: the buffered coordinate signal, when there is one, is the coordinate
\* signal that arrived last (a coordinate step leaves itself or nothing, and
\* no other step touches the coordinate entries); every ToggleCell pairs it
\* with the newly arrived one, whose timestamp is at least the buffered one's
\* and at most the window after it; a coordinate signal with a smaller
\* timestamp than the buffered one emits nothing and stays as the only
\* buffered coordinate signal, the next row.
C23_OutOfOrder ==
  [][ /\ \A b \in CoordNumbers, tb \in Timestamps :
           (nCoords' # nCoords /\ accepted(b, tb) /\ ChildAdded(b, tb))
           => LET new == [signal |-> b, timestamp |-> tb]
                  old == coords(signalBuffer)
              IN /\ coords(signalBuffer') \in {<<>>, << new >>}
                 /\ emitted'.ToggleCell # emitted.ToggleCell
                    => /\ Len(old) = 1
                       /\ tb - old[1].timestamp >= 0
                       /\ tb - old[1].timestamp <= signalTimeoutMs
                       /\ emitted' = [emitted EXCEPT !.ToggleCell = @ + 1]
                       /\ lastCmd' = ToggleCellCmd(old[1].signal - 1, b - 1)
                 /\ (Len(old) = 1 /\ tb < old[1].timestamp)
                    => /\ emitted' = emitted
                       /\ lastCmd' = lastCmd
                       /\ coords(signalBuffer') = << new >>
                       /\ \A c \in 1..8 :
                            processCoordinate(signalBuffer', c, tb).toggles
                              = << <<b - 1, c - 1>> >>
      /\ nCoords' = nCoords => coords(signalBuffer') = coords(signalBuffer) ]_vars

\* two coordinate signals have arrived and nothing was emitted; the one left
\* in the buffer carries the earliest timestamp the feed accepts, so the
\* first one's timestamp was greater
C23_Witness ==
  /\ nSignals = 2
  /\ nCoords = 2
  /\ emitted = NoneEmitted
  /\ Len(coords(signalBuffer)) = 1
  /\ coords(signalBuffer)[1].timestamp = sessionStartMs

(* ---------- C24: the rotation rule of traceRay ---------- *)
\* the counter-clockwise successor of a direction
ccwSuccessor(dir) ==
  CASE dir = "N" -> "W"
    [] dir = "W" -> "S"
    [] dir = "S" -> "E"
    [] dir = "E" -> "N"

\* the unit step of a direction, as <<rows, columns>>
stepOf(dir) ==
  CASE dir = "N" -> <<-1, 0>>
    [] dir = "S" -> <<1, 0>>
    [] dir = "E" -> <<0, 1>>
    [] dir = "W" -> <<0, -1>>

Anomalies == {"never entered", "loop detected", "step limit reached"}

\* a result is a WIN or a LOSE; it carries no exitInfo exactly when its reason
\* is an anomaly, and an anomaly is a LOSE
WellFormed(res) ==
  /\ res.outcome \in {"WIN", "LOSE"}
  /\ res.reason \in Anomalies <=> res.exitInfo = NoExit
  /\ res.reason \in Anomalies => res.outcome = "LOSE"

\* the level with its entry moved off the grid's sides
offGrid(lvl, index) == [lvl EXCEPT !.entry.index = index]

\* C25: traceRay returns after at most 512 advances, for every grid and
\* entry, with a result whose outcome is WIN or LOSE; "never entered",
\* "loop detected" and "step limit reached" are LOSE results without
\* exitInfo.  An entry off the grid (index -1 or N) gives "never entered".
C25_TraceTerminates ==
  Traced
  => /\ WellFormed(result)
     /\ Len(result.path) < maxSteps
     /\ \A index \in {-1, N} :
          LET res == traceRay(state, offGrid(level, index))
          IN /\ WellFormed(res)
             /\ res.reason = "never entered"
             /\ res.path = <<>>

\* a ray that was turned three times or more and came out at the level's exit
C25_Witness ==
  /\ Traced
  /\ result.outcome = "WIN"
  /\ result.exitInfo = level.exit
  /\ Cardinality(Hits("FIXED") \cup Hits("PLAYER")) >= 3

(* ---------- C26: the filter in front of the decoder ---------- *)
\* processSignal ran in the step
DecoderReached == nNines' + nCoords' # nNines + nCoords

\* the record is one the listener hands to processSignal
Eligible(matNumber, timestamp) ==
  /\ matNumber \in 1..9
  /\ timestamp >= sessionStartMs
  /\ ~animating

\* C26: a feed record reaches the decoder only if its matNumber is in 1..9,
\* its timestamp is at or after the session start and no animation is in
\* progress; any other record leaves the signal buffer, the pending timer and
\* the grid unchanged and emits no command.
C26_IngressFilter ==
  [][ IF DecoderReached
      THEN \* the step is the delivery of an eligible record, and of no other
           /\ \E matNumber \in MatNumbers, timestamp \in Timestamps :
                Eligible(matNumber, timestamp) /\ ChildAdded(matNumber, timestamp)
           /\ \A matNumber \in MatNumbers, timestamp \in Timestamps :
                ~Eligible(matNumber, timestamp) => ~ChildAdded(matNumber, timestamp)
      ELSE \* a delivery that did not reach the decoder changed nothing
           nSignals' # nSignals
           => /\ UNCHANGED << signalBuffer, signal9Timer, timers, state >>
              /\ emitted' = emitted
              /\ lastCmd' = lastCmd ]_vars

\* three records were delivered, one reached the decoder (a 9 that has fired
\* the ray), and the animation is running
C26_Witness ==
  /\ nSignals = 3
  /\ nNines = 1
  /\ nCoords = 0
  /\ emitted.FireRay = 1
  /\ animating

====
